---- MODULE Spec2Model ----
(***************************************************************************)
(* gh-export: the synchronization engine (Downloader), its per-repository  *)
(* worker tasks, the permit pool (tokio Semaphore) and the progress        *)
(* aggregator (ProgressTracker).                                           *)
(*                                                                         *)
(* One batch is one call of Downloader::download_repositories.  The state  *)
(* starts where run_export has built the ProgressTracker and the           *)
(* Downloader and calls download_repositories.                             *)
(*                                                                         *)
(* Spec and LiveSpec are the batch.  SyncSpec follows one repository over  *)
(* consecutive runs, with the git state its clone and its update leave at  *)
(* the target path.  RunSpec is run_export from its validated Config to    *)
(* the saved metadata, with the batch taken as one step.  ProgressSpec is  *)
(* the ProgressTracker under any sequence of calls.  MergeSpec is the way  *)
(* from the command line to the Config that run_export is called with.     *)
(***************************************************************************)
EXTENDS Integers, Sequences, FiniteSets

(* ---------------------------------------------------------------------- *)
(* Bounds                                                                  *)
(* ---------------------------------------------------------------------- *)
MaxRepos == 3            \* longest batch explored
PackObjects == 2         \* objects in the pack a clone of a non-empty repository transfers
MaxRuns == 2             \* consecutive runs over one output root

(* Concurrency limits handed to download_repositories *)
Concurrencies == {0, 1, 2, 8}

(* ---------------------------------------------------------------------- *)
(* Repository descriptors (github.rs Repository)                           *)
(* ---------------------------------------------------------------------- *)
OwnerLogins == <<"alice", "bob">>
RepoNames == <<"app", "lib", "doc">>

(* The k-th descriptor of the catalog: descriptors 1 and 2 have the same   *)
(* name under different owners, descriptor 3 has another name.             *)
Descriptor(k) ==
    LET owner == OwnerLogins[((k - 1) % 2) + 1]
        name == RepoNames[((k - 1) \div 2) + 1]
    IN  [owner |-> owner, name |-> name, full_name |-> <<owner, name>>]

Batch(n) == [k \in 1..n |-> Descriptor(k)]

AllNames == {RepoNames[j] : j \in 1..Len(RepoNames)}

(* ---------------------------------------------------------------------- *)
(* DownloadResult (download.rs) and the errors a transport step returns    *)
(* ---------------------------------------------------------------------- *)
Success == [tag |-> "Success", reason |-> <<>>]
Failed(step, e) == [tag |-> "Failed", reason |-> <<step, e>>]

(* The errors clone_repository and update_repository return.  Every kind   *)
(* of GhExportError (Io from create_dir_all, Git from libgit2, Download    *)
(* from a blocking task that could not be joined) is matched by the same   *)
(* Err(e) arm of download_repository and only changes the text of the      *)
(* reason; the Git kind stands for them.                                   *)
TransportErrors == {"Git"}

(* JoinHandle output of a spawned task *)
Pending == <<>>
JoinOk(name, result) == <<"Ok", name, result>>
JoinErr == <<"Err">>

(* ---------------------------------------------------------------------- *)
(* ProgressTracker (progress.rs)                                           *)
(* ---------------------------------------------------------------------- *)
NoBar == <<>>

ProgressTracker_new(total) ==
    [total_repos |-> total,
     completed_repos |-> 0,
     failed_repos |-> 0,
     repo_bars |-> [nm \in AllNames |-> NoBar],
     main_bar_finished |-> FALSE]

(* variant: the bar is removed only once current is above total *)
update_repo_progress_Strict(p, repo_name, current, total) ==
    LET bar == IF p.repo_bars[repo_name] = NoBar
               THEN <<0, total>>
               ELSE p.repo_bars[repo_name]
        moved == <<current, bar[2]>>
    IN  [p EXCEPT !.repo_bars[repo_name] =
            IF current > total THEN NoBar ELSE moved]

(* bars.entry(name).or_insert_with(new bar of length total);               *)
(* bar.set_position(current); if current >= total { bars.remove(name) }    *)
update_repo_progress(p, repo_name, current, total) ==
    LET bar == IF p.repo_bars[repo_name] = NoBar
               THEN <<0, total>>
               ELSE p.repo_bars[repo_name]
        moved == <<current, bar[2]>>
    IN  [p EXCEPT !.repo_bars[repo_name] =
            IF current >= total THEN NoBar ELSE moved]

fetch_add(v) == v + 1

increment_completed(p) ==
    LET completed == fetch_add(p.completed_repos)
    IN  [p EXCEPT !.completed_repos = completed,
                  !.main_bar_finished = (@ \/ completed = p.total_repos)]

(* variant: the failure is added to the completed counter *)
increment_failed_WrongCounter(p) ==
    [p EXCEPT !.completed_repos = fetch_add(p.completed_repos)]

increment_failed(p) ==
    [p EXCEPT !.failed_repos = fetch_add(p.failed_repos)]

(* ---------------------------------------------------------------------- *)
(* State                                                                   *)
(* ---------------------------------------------------------------------- *)
VARIABLES
    repositories,    \* the batch: sequence of descriptors
    max_concurrent,  \* the concurrency limit of the call
    semaphore,       \* permits available in the Semaphore
    tasks,           \* number of JoinHandles pushed by the spawn loop
    task_stream,     \* number of JoinHandles the collect loop has awaited
    results,         \* the Vec<(String, DownloadResult)> being built
    returned,        \* download_repositories has returned Ok(results)
    pc,              \* position of each spawned task
    stats,           \* per task: <<received_objects, total_objects>> of its clone
    output,          \* per task: the JoinHandle output
    progress,        \* the shared ProgressTracker
    fs,              \* repository paths that exist under the output root
    counted,         \* per task: <<completed increments, failed increments>> so far
    transport,       \* per task: how its transport operation ended ("none" before)
    overtaken,       \* some task ended while a task spawned before it was still unfinished
    local,           \* the git repository at the target path of the first descriptor
    remote,          \* the remote of that repository: its default branch and head commit
    hist,            \* history of the runs over the output root
    invocation,      \* one invocation of the program: command line, config, environment
    export           \* the state of run_export for that invocation

enginevars == <<repositories, max_concurrent, semaphore, tasks, task_stream, results,
                returned, pc, stats, output, progress, fs, counted, transport, overtaken>>
syncvars == <<local, remote, hist>>
exportvars == <<invocation, export>>
vars == <<enginevars, syncvars, exportvars>>

N == Len(repositories)
Workers == 1..N

(* variant: the target path leaves the owner's directory out *)
repo_path_NameOnly(repo) == <<repo.name>>

(* output_dir.join(owner.login).join(name) *)
repo_path(repo) == <<repo.owner, repo.name>>

(* a task that is past permit acquisition and has not terminated *)
Executing == {"deciding", "cloning", "checkout", "updating"}
Terminated == {"done", "panicked"}

(* the state in which run_export calls download_repositories *)
EngineInit ==
    /\ \E n \in 0..MaxRepos :
         /\ repositories = Batch(n)
         /\ \E existing \in SUBSET {repo_path(Descriptor(k)) : k \in 1..n} : fs = existing
         /\ progress = ProgressTracker_new(n)
         /\ pc = [i \in 1..n |-> "unspawned"]
         /\ stats = [i \in 1..n |-> <<0, 0>>]
         /\ output = [i \in 1..n |-> Pending]
         /\ counted = [i \in 1..n |-> <<0, 0>>]
         /\ transport = [i \in 1..n |-> "none"]
    /\ overtaken = FALSE
    /\ max_concurrent \in Concurrencies
    /\ semaphore = max_concurrent
    /\ tasks = 0
    /\ task_stream = 0
    /\ results = <<>>
    /\ returned = FALSE

(* the git detail of the repositories is left out of the batch model *)
NoRepo == <<>>
NoRemote == <<>>
NoHist == <<>>
(* run_export is left out of the batch model as well *)
NoInvocation == <<>>
NoExport == <<>>

Init ==
    /\ EngineInit
    /\ local = NoRepo
    /\ remote = NoRemote
    /\ hist = NoHist
    /\ invocation = NoInvocation
    /\ export = NoExport

(* ---------------------------------------------------------------------- *)
(* Code fragments used by the actions                                      *)
(* ---------------------------------------------------------------------- *)
(* variant: acquire also resolves on an empty pool *)
permit_available_NonNegative(sem) == sem >= 0

(* variant: acquire resolves without looking at the pool *)
permit_available_Always(sem) == TRUE

(* Semaphore::acquire resolves only while a permit is available *)
permit_available(sem) == sem > 0

(* variant: the permit is forgotten instead of dropped *)
drop_permit_Forget(sem) == sem

(* dropping the SemaphorePermit bound to _permit returns it to the pool;   *)
(* the binding is dropped when the task's block ends, by return or unwind  *)
drop_permit(sem) == sem + 1

(* variant: task.await resolves only for a task that ran to its end *)
task_finished_OnlyDone(p) == p = "done"

(* task.await resolves once the task has run to its end or panicked *)
task_finished(p) == p \in Terminated

(* variant: the Err arms return Skipped *)
download_result_Skipped(step, res) ==
    IF res = "Ok" THEN Success ELSE [tag |-> "Skipped", reason |-> <<step, res>>]

(* variant: the Err arm of the update branch returns Success *)
download_result_UpdateOk(step, res) ==
    IF res = "Ok" \/ step = "Update failed" THEN Success ELSE Failed(step, res)

(* download_repository: the match arms on the transport result *)
download_result(step, res) ==
    IF res = "Ok" THEN Success ELSE Failed(step, res)

(* variant: the Err arm counts the repository as completed as well *)
count_result_Both(p, res) ==
    IF res = "Ok" THEN increment_completed(p)
    ELSE increment_failed(increment_completed(p))

count_result(p, res) ==
    IF res = "Ok" THEN increment_completed(p) ELSE increment_failed(p)

(* variant: only successful pairs are pushed *)
collect_DropsFailed(acc, out) ==
    IF out[1] = "Ok" /\ out[3].tag = "Success" THEN Append(acc, <<out[2], out[3]>>) ELSE acc

(* variant: the pair is inserted at the front *)
collect_Front(acc, out) ==
    IF out[1] = "Ok" THEN <<(<<out[2], out[3]>>)>> \o acc ELSE acc

(* variant: a pair whose error is a Download error is not pushed *)
collect_DropsTaskFailures(acc, out) ==
    IF out[1] = "Ok" /\ ~(out[3].tag = "Failed" /\ out[3].reason[2] = "Download")
    THEN Append(acc, <<out[2], out[3]>>) ELSE acc

(* variant: a JoinError discards the pairs collected so far *)
collect_ErrClears(acc, out) ==
    IF out[1] = "Ok" THEN Append(acc, <<out[2], out[3]>>) ELSE <<>>

(* the match in the collect loop: Ok pushes the pair, Err only logs *)
collect(acc, out) ==
    IF out[1] = "Ok" THEN Append(acc, <<out[2], out[3]>>) ELSE acc

(* history of the increments a task has made, read off the counters *)
Counted(i, p, q) ==
    [counted EXCEPT ![i] = <<@[1] + (q.completed_repos - p.completed_repos),
                             @[2] + (q.failed_repos - p.failed_repos)>>]

(* ---------------------------------------------------------------------- *)
(* download_repositories: the spawn loop                                   *)
(* ---------------------------------------------------------------------- *)
Spawn ==
    /\ ~returned
    /\ tasks < N
    /\ tasks' = tasks + 1
    /\ pc' = [pc EXCEPT ![tasks + 1] = "waiting"]
    /\ UNCHANGED <<repositories, max_concurrent, semaphore, task_stream, results,
                   returned, stats, output, progress, fs, counted, transport, overtaken>>

(* ---------------------------------------------------------------------- *)
(* The spawned task                                                        *)
(* ---------------------------------------------------------------------- *)
(* let _permit = semaphore.acquire().await.unwrap(); *)
Acquire(i) ==
    /\ pc[i] = "waiting"
    /\ permit_available(semaphore)
    /\ semaphore' = semaphore - 1
    /\ pc' = [pc EXCEPT ![i] = "deciding"]
    /\ UNCHANGED <<repositories, max_concurrent, tasks, task_stream, results,
                   returned, stats, output, progress, fs, counted, transport, overtaken>>

(* the rest of the task once its transport has ended: download_repository *)
(* counts the outcome and returns it, the task's block ends with the pair  *)
(* (the JoinHandle's output) and _permit is dropped                        *)
Finish(i, step, res) ==
    LET q == count_result(progress, res)
    IN  /\ progress' = q
        /\ counted' = Counted(i, progress, q)
        /\ output' = [output EXCEPT ![i] =
               JoinOk(repositories[i].full_name, download_result(step, res))]
        /\ semaphore' = drop_permit(semaphore)
        /\ pc' = [pc EXCEPT ![i] = "done"]
        /\ transport' = [transport EXCEPT ![i] = res]
        /\ overtaken' = (overtaken \/ \E h \in 1..(i - 1) : pc[h] \notin Terminated)

(* variant: Deciding takes the two branches the other way round *)
Decide_Inverted(i) ==
    /\ pc[i] = "deciding"
    /\ pc' = [pc EXCEPT ![i] = IF repo_path(repositories[i]) \in fs
                               THEN "cloning" ELSE "updating"]
    /\ UNCHANGED <<repositories, max_concurrent, semaphore, tasks, task_stream,
                   results, returned, stats, output, progress, fs, counted, transport, overtaken>>

(* variant: Deciding does not look at the path and clones *)
Decide_AlwaysClone(i) ==
    /\ pc[i] = "deciding"
    /\ pc' = [pc EXCEPT ![i] = "cloning"]
    /\ UNCHANGED <<repositories, max_concurrent, semaphore, tasks, task_stream,
                   results, returned, stats, output, progress, fs, counted, transport, overtaken>>

(* download_repository: repo_path.exists() chooses update or clone *)
Decide(i) ==
    /\ pc[i] = "deciding"
    /\ pc' = [pc EXCEPT ![i] = IF repo_path(repositories[i]) \in fs
                               THEN "updating" ELSE "cloning"]
    /\ UNCHANGED <<repositories, max_concurrent, semaphore, tasks, task_stream,
                   results, returned, stats, output, progress, fs, counted, transport, overtaken>>

(* the transfer_progress callback of the clone: one or more objects of the *)
(* pack arrive and the callback reports the new count while total > 0;     *)
(* with the last object the transfer is over and the clone goes on to      *)
(* check out the working tree                                              *)
TransferProgress(i) ==
    /\ pc[i] = "cloning"
    /\ \E total \in {PackObjects} :
       \E received \in (stats[i][1] + 1)..total :
         /\ progress' = IF total > 0
                        THEN update_repo_progress(progress, repositories[i].name,
                                                  received, total)
                        ELSE progress
         /\ IF received = total
            THEN /\ pc' = [pc EXCEPT ![i] = "checkout"]
                 /\ stats' = [stats EXCEPT ![i] = <<0, 0>>]
            ELSE /\ pc' = pc
                 /\ stats' = [stats EXCEPT ![i] = <<received, total>>]
    /\ UNCHANGED <<repositories, max_concurrent, semaphore, tasks, task_stream,
                   results, returned, output, fs, counted, transport, overtaken>>

(* A failed clone may leave its target path behind.  Within one batch      *)
(* nothing reads that path again (Deciding has run, and no other task has  *)
(* the same path), so the leftover is recorded only where later runs over  *)
(* the output root are followed (hist).                                    *)
Leftovers == IF hist = NoHist THEN {FALSE} ELSE BOOLEAN

(* the blocking clone ends: Ok after the whole pack has arrived (or for a  *)
(* repository without objects), or an error at any point; a failed clone   *)
(* may leave the target path behind                                        *)
CloneFinish(i) ==
    /\ \/ /\ pc[i] = "checkout" \/ (pc[i] = "cloning" /\ stats[i] = <<0, 0>>)
          /\ Finish(i, "Clone failed", "Ok")
          /\ fs' = fs \cup {repo_path(repositories[i])}
       \/ /\ pc[i] \in {"cloning", "checkout"}
          /\ \E e \in TransportErrors :
               /\ Finish(i, "Clone failed", e)
               /\ \E left \in Leftovers :
                    fs' = IF left THEN fs \cup {repo_path(repositories[i])} ELSE fs
    /\ stats' = [stats EXCEPT ![i] = <<0, 0>>]
    /\ UNCHANGED <<repositories, max_concurrent, tasks, task_stream, results, returned>>

(* variant: an update that fails goes on to clone *)
UpdateFinish_FallsBack(i) ==
    /\ pc[i] = "updating"
    /\ \/ /\ Finish(i, "Update failed", "Ok")
          /\ UNCHANGED <<repositories, max_concurrent, tasks, task_stream, results,
                         returned, stats, fs>>
       \/ /\ pc' = [pc EXCEPT ![i] = "cloning"]
          /\ UNCHANGED <<repositories, max_concurrent, semaphore, tasks, task_stream,
                         results, returned, stats, output, progress, fs, counted,
                         transport, overtaken>>

(* the blocking update (open, fetch, merge analysis, fast-forward) ends *)
UpdateFinish(i) ==
    /\ pc[i] = "updating"
    /\ \E res \in {"Ok"} \cup TransportErrors : Finish(i, "Update failed", res)
    /\ UNCHANGED <<repositories, max_concurrent, tasks, task_stream, results,
                   returned, stats, fs>>

(* the task panics in its own code before the transport starts: the unwind *)
(* drops _permit and the JoinHandle yields a JoinError                     *)
Panic(i) ==
    /\ pc[i] = "deciding"
    /\ pc' = [pc EXCEPT ![i] = "panicked"]
    /\ output' = [output EXCEPT ![i] = JoinErr]
    /\ semaphore' = drop_permit(semaphore)
    /\ UNCHANGED <<repositories, max_concurrent, tasks, task_stream, results,
                   returned, stats, progress, fs, counted, transport, overtaken>>

(* ---------------------------------------------------------------------- *)
(* download_repositories: the collect loop and the return                  *)
(* ---------------------------------------------------------------------- *)
Collect ==
    /\ ~returned
    /\ tasks = N
    /\ task_stream < N
    /\ task_finished(pc[task_stream + 1])
    /\ results' = collect(results, output[task_stream + 1])
    /\ task_stream' = task_stream + 1
    /\ UNCHANGED <<repositories, max_concurrent, semaphore, tasks, returned, pc,
                   stats, output, progress, fs, counted, transport, overtaken>>

(* variant: the collect loop is left after the first handle *)
Return_AfterFirst ==
    /\ ~returned
    /\ tasks = N
    /\ task_stream >= (IF N = 0 THEN 0 ELSE 1)
    /\ returned' = TRUE
    /\ UNCHANGED <<repositories, max_concurrent, semaphore, tasks, task_stream,
                   results, pc, stats, output, progress, fs, counted, transport, overtaken>>

Return ==
    /\ ~returned
    /\ tasks = N
    /\ task_stream = N
    /\ returned' = TRUE
    /\ UNCHANGED <<repositories, max_concurrent, semaphore, tasks, task_stream,
                   results, pc, stats, output, progress, fs, counted, transport, overtaken>>

Next ==
    \/ Spawn /\ UNCHANGED <<syncvars, exportvars>>
    \/ \E i \in Workers : Acquire(i) /\ UNCHANGED <<syncvars, exportvars>>
    \/ \E i \in Workers : Decide(i) /\ UNCHANGED <<syncvars, exportvars>>
    \/ \E i \in Workers : TransferProgress(i) /\ UNCHANGED <<syncvars, exportvars>>
    \/ \E i \in Workers : CloneFinish(i) /\ UNCHANGED <<syncvars, exportvars>>
    \/ \E i \in Workers : UpdateFinish(i) /\ UNCHANGED <<syncvars, exportvars>>
    \/ \E i \in Workers : Panic(i) /\ UNCHANGED <<syncvars, exportvars>>
    \/ Collect /\ UNCHANGED <<syncvars, exportvars>>
    \/ Return /\ UNCHANGED <<syncvars, exportvars>>

Spec == Init /\ [][Next]_vars

TypeOK ==
    /\ N \in 0..MaxRepos
    /\ semaphore \in Int
    /\ tasks \in 0..N
    /\ task_stream \in 0..N
    /\ returned \in BOOLEAN
    /\ \A i \in Workers :
         pc[i] \in {"unspawned", "waiting"} \cup Executing \cup Terminated

(* Fair scheduling: the runtime does not stop while the engine or a task   *)
(* can take a step, and a transport operation that has started ends.       *)
(* Nothing forces a task to panic or a transfer to report progress.        *)
Scheduled ==
    /\ \/ Spawn
       \/ Collect
       \/ Return
       \/ \E i \in Workers : Acquire(i) \/ Decide(i) \/ CloneFinish(i) \/ UpdateFinish(i)
    /\ UNCHANGED <<syncvars, exportvars>>

LiveSpec == Init /\ [][Next]_vars /\ WF_vars(Scheduled)

(* ---------------------------------------------------------------------- *)
(* The git repository at a target path (update_repository, clone)          *)
(* ---------------------------------------------------------------------- *)
(* The commits of the model: A is the parent of B, C is on another line of *)
(* history (neither an ancestor nor a descendant of A or B).               *)
Commits == {"A", "B", "C"}
Ancestor(x, y) == x = "A" /\ y = "B"

(* refs/heads/<name>: the two names the code looks for, and another one *)
Branches == {"master", "main", "dev"}
Absent == "absent"

(* A local repository: its branch pointers, the branch HEAD is on, the     *)
(* commit the working tree matches, and the remote-tracking ref of origin  *)
LocalRepos ==
    {l \in [refs : [Branches -> Commits \cup {Absent}], HEAD : Branches,
            worktree : Commits, origin : Commits] :
        /\ l.refs[l.HEAD] # Absent
        /\ l.worktree = l.refs[l.HEAD]}

Remotes == [branch : Branches, head : Commits]

(* RepoBuilder::clone: the remote's default branch is checked out *)
clone(r) ==
    [refs |-> [b \in Branches |-> IF b = r.branch THEN r.head ELSE Absent],
     HEAD |-> r.branch, worktree |-> r.head, origin |-> r.head]

(* remote.fetch of refs/heads/*:refs/remotes/origin/* and FETCH_HEAD *)
fetch(l, r) == [l EXCEPT !.origin = r.head]

(* variant: a diverged history is reported as fast-forwardable *)
merge_analysis_NoDivergence(l, fetch_commit) ==
    IF fetch_commit = l.refs[l.HEAD] \/ Ancestor(fetch_commit, l.refs[l.HEAD])
    THEN "up_to_date" ELSE "fast_forward"

(* repo.merge_analysis(&[&fetch_commit]): the fetched commit against HEAD *)
merge_analysis(l, fetch_commit) ==
    IF fetch_commit = l.refs[l.HEAD] \/ Ancestor(fetch_commit, l.refs[l.HEAD])
    THEN "up_to_date"
    ELSE IF Ancestor(l.refs[l.HEAD], fetch_commit) THEN "fast_forward" ELSE "normal"

(* reference.set_target(id); repo.set_head(refname); repo.checkout_head(force) *)
advance(l, refname, id) ==
    [l EXCEPT !.refs[refname] = id, !.HEAD = refname, !.worktree = id]

(* variant: master and main are both advanced when both exist *)
fast_forward_Both(l, id) ==
    IF l.refs["master"] # Absent /\ l.refs["main"] # Absent
    THEN [advance(l, "master", id) EXCEPT !.refs["main"] = id]
    ELSE IF l.refs["master"] # Absent THEN advance(l, "master", id)
    ELSE IF l.refs["main"] # Absent THEN advance(l, "main", id)
    ELSE l

(* variant: refs/heads/main is looked for first *)
fast_forward_MainFirst(l, id) ==
    IF l.refs["main"] # Absent THEN advance(l, "main", id)
    ELSE IF l.refs["master"] # Absent THEN advance(l, "master", id)
    ELSE l

(* the is_fast_forward() branch: refs/heads/master if find_reference finds *)
(* it, otherwise refs/heads/main if that is found, otherwise nothing       *)
fast_forward(l, id) ==
    IF l.refs["master"] # Absent THEN advance(l, "master", id)
    ELSE IF l.refs["main"] # Absent THEN advance(l, "main", id)
    ELSE l

(* the blocking closure of update_repository once the fetch has succeeded *)
update_repository(l, r) ==
    IF merge_analysis(fetch(l, r), r.head) = "fast_forward"
    THEN fast_forward(fetch(l, r), r.head)
    ELSE fetch(l, r)

(* ---------------------------------------------------------------------- *)
(* Consecutive runs over one output root: the batch of one repository,     *)
(* with the git state its clone and its update leave behind                *)
(* ---------------------------------------------------------------------- *)
SyncInit ==
    /\ EngineInit
    /\ N = 1
    /\ max_concurrent = 1
    /\ remote \in Remotes
    /\ local \in (IF fs = {} THEN {NoRepo} ELSE LocalRepos)
    /\ hist = [run |-> 1, prev |-> NoHist, before |-> local, dec |-> "none",
               mutated |-> FALSE]
    /\ invocation = NoInvocation
    /\ export = NoExport

(* Deciding, with the choice remembered *)
SyncDecide ==
    /\ Decide(1)
    /\ hist' = [hist EXCEPT !.dec = pc'[1]]
    /\ UNCHANGED <<local, remote>>

(* the clone ends: a repository on success, otherwise nothing or a path    *)
(* that holds no repository                                                *)
SyncClone ==
    /\ CloneFinish(1)
    /\ local' = IF transport'[1] = "Ok" THEN clone(remote) ELSE NoRepo
    /\ UNCHANGED <<remote, hist>>

(* the update ends: Repository::open fails on a path that holds no         *)
(* repository, the fetch may fail, otherwise the analysis and the          *)
(* fast-forward run                                                        *)
SyncUpdate ==
    /\ UpdateFinish(1)
    /\ transport'[1] = "Ok" => local # NoRepo
    /\ local' = IF transport'[1] = "Ok" THEN update_repository(local, remote) ELSE local
    /\ UNCHANGED <<remote, hist>>

(* Between Deciding and Repository::open something other than the program  *)
(* removes the target path, or damages it so that it holds no repository   *)
ExternalMutation ==
    /\ pc[1] = "updating"
    /\ local # NoRepo
    /\ local' = NoRepo
    /\ \E removed \in BOOLEAN :
         fs' = IF removed THEN fs \ {repo_path(repositories[1])} ELSE fs
    /\ hist' = [hist EXCEPT !.mutated = TRUE]
    /\ UNCHANGED <<repositories, max_concurrent, semaphore, tasks, task_stream, results,
                   returned, pc, stats, output, progress, counted, transport, overtaken,
                   remote>>

(* the spawn_blocking task of the clone or of the update cannot be joined  *)
(* (its closure panicked): map_err turns the JoinError into a Download     *)
(* error, which download_repository handles like any other Err             *)
BlockingTaskFails ==
    /\ pc[1] \in {"cloning", "checkout", "updating"}
    /\ Finish(1, IF pc[1] = "updating" THEN "Update failed" ELSE "Clone failed", "Download")
    /\ stats' = [stats EXCEPT ![1] = <<0, 0>>]
    /\ \E left \in Leftovers :
         /\ fs' = IF left /\ pc[1] # "updating"
                  THEN fs \cup {repo_path(repositories[1])} ELSE fs
    /\ UNCHANGED <<repositories, max_concurrent, tasks, task_stream, results, returned,
                   syncvars>>

(* the program is run again over the same output root; commits may have    *)
(* been pushed to the remote in between, or its branch rewritten           *)
NextRun ==
    /\ returned
    /\ hist.run < MaxRuns
    /\ \E h \in Commits : remote' = [remote EXCEPT !.head = h]
    /\ hist' = [run |-> hist.run + 1,
                prev |-> [dec |-> hist.dec,
                          tag |-> IF pc[1] = "done" THEN output[1][3].tag ELSE "JoinError",
                          head |-> remote.head],
                before |-> local,
                dec |-> "none",
                mutated |-> FALSE]
    /\ progress' = ProgressTracker_new(N)
    /\ semaphore' = max_concurrent
    /\ tasks' = 0
    /\ task_stream' = 0
    /\ results' = <<>>
    /\ returned' = FALSE
    /\ pc' = [i \in Workers |-> "unspawned"]
    /\ stats' = [i \in Workers |-> <<0, 0>>]
    /\ output' = [i \in Workers |-> Pending]
    /\ counted' = [i \in Workers |-> <<0, 0>>]
    /\ transport' = [i \in Workers |-> "none"]
    /\ overtaken' = FALSE
    /\ UNCHANGED <<repositories, max_concurrent, fs, local>>

SyncNext ==
    \/ Spawn /\ UNCHANGED <<syncvars, exportvars>>
    \/ Acquire(1) /\ UNCHANGED <<syncvars, exportvars>>
    \/ SyncDecide /\ UNCHANGED exportvars
    \/ TransferProgress(1) /\ UNCHANGED <<syncvars, exportvars>>
    \/ SyncClone /\ UNCHANGED exportvars
    \/ SyncUpdate /\ UNCHANGED exportvars
    \/ ExternalMutation /\ UNCHANGED exportvars
    \/ BlockingTaskFails /\ UNCHANGED exportvars
    \/ Panic(1) /\ UNCHANGED <<syncvars, exportvars>>
    \/ Collect /\ UNCHANGED <<syncvars, exportvars>>
    \/ Return /\ UNCHANGED <<syncvars, exportvars>>
    \/ NextRun /\ UNCHANGED exportvars

SyncSpec == SyncInit /\ [][SyncNext]_vars

(* ---------------------------------------------------------------------- *)
(* run_export: from the command line to the saved metadata                 *)
(* ---------------------------------------------------------------------- *)
(* github.rs Repository: the fields of the k-th descriptor run_export      *)
(* reads; updated_at is a day number                                       *)
archived(k) == k % 4 = 2
fork(k) == k % 4 = 3
size(k) == k
updated_at(k) == ((k - 1) % 2) + 1

(* Option<String> of sync --since *)
None == <<>>
Some(d) == <<d>>
Sinces == {None, Some(1), Some(2)}

(* config.parallel_downloads after merge_cli_config *)
ParallelDownloads == {0, 1, 4, 10, 11}
(* bytes available on the output volume (statvfs) *)
AvailableBytes == {0, 2048, 6144, 16384}
(* the login of the authenticated user *)
UserLogin == "alice"

Listing(S) == SelectSeq([k \in 1..MaxRepos |-> k], LAMBDA k : k \in S)

(* variant: zero is let through *)
validate_NoLowerBound(config) ==
    IF config.parallel_downloads > 10 THEN "Config" ELSE "Ok"

(* Config::validate *)
validate(config) ==
    IF config.parallel_downloads = 0 THEN "Config"
    ELSE IF config.parallel_downloads > 10 THEN "Config"
    ELSE "Ok"

(* the two retain calls on the listing *)
retain(listing, config) ==
    SelectSeq(listing, LAMBDA k : /\ (config.include_archived \/ ~archived(k))
                                  /\ (~config.exclude_forks \/ ~fork(k)))

(* repositories.iter().map(|r| r.size * 1024).sum() *)
RECURSIVE total_size(_)
total_size(repos) ==
    IF repos = <<>> THEN 0 ELSE size(Head(repos)) * 1024 + total_size(Tail(repos))

(* variant: the estimate is passed without the safety multiplier *)
required_bytes_NoMargin(repos) == total_size(repos)

(* the argument of check_disk_space: total_size * 2 *)
required_bytes(repos) == total_size(repos) * 2

(* check_disk_space (unix): available < required_bytes is an error *)
check_disk_space(available, required) ==
    IF available < required THEN "InsufficientSpace" ELSE "Ok"

NoTracker == <<>>
NoMetadata == <<>>

RunInit ==
    /\ EngineInit
    /\ N = 0
    /\ max_concurrent = 0
    /\ local = NoRepo
    /\ remote = NoRemote
    /\ hist = NoHist
    /\ invocation \in
         {v \in [is_sync : BOOLEAN, since : Sinces,
                 config : [parallel_downloads : ParallelDownloads,
                           include_archived : BOOLEAN, exclude_forks : BOOLEAN],
                 listing : {Listing(S) : S \in SUBSET (1..MaxRepos)},
                 available : AvailableBytes,
                 root : BOOLEAN, user_dir : BOOLEAN, confirm : BOOLEAN] :
             /\ (~v.is_sync => v.since = None)
             /\ (v.user_dir => v.root)
             /\ (v.is_sync \/ v.user_dir => v.confirm)}
    /\ export = [pc |-> "validate", result |-> "running",
                 root |-> invocation.root, user_dir |-> invocation.user_dir,
                 repositories |-> <<>>, progress |-> NoTracker, spawned |-> 0,
                 paths |-> {}, results |-> <<>>, metadata |-> NoMetadata]

(* return from run_export *)
Ended(result) == [export EXCEPT !.pc = "ended", !.result = result]

Validate ==
    /\ export.pc = "validate"
    /\ export' = IF validate(invocation.config) = "Ok"
                 THEN [export EXCEPT !.pc = "ensure_output_directory"]
                 ELSE Ended(validate(invocation.config))
    /\ UNCHANGED invocation

(* Config::ensure_output_directory *)
EnsureOutputDirectory ==
    /\ export.pc = "ensure_output_directory"
    /\ export' = [export EXCEPT !.pc = "get_authenticated_user", !.root = TRUE]
    /\ UNCHANGED invocation

GetAuthenticatedUser ==
    /\ export.pc = "get_authenticated_user"
    /\ \E ok \in BOOLEAN :
         export' = IF ok THEN [export EXCEPT !.pc = "list_user_repositories"]
                   ELSE Ended("GitHubApi")
    /\ UNCHANGED invocation

(* the listing, the two filters and the return when nothing is left *)
ListUserRepositories ==
    /\ export.pc = "list_user_repositories"
    /\ \E ok \in BOOLEAN :
         export' =
            IF ~ok THEN Ended("GitHubApi")
            ELSE LET repos == retain(invocation.listing, invocation.config)
                 IN  IF repos = <<>> THEN Ended("Ok")
                     ELSE [export EXCEPT !.pc = "check_disk_space", !.repositories = repos]
    /\ UNCHANGED invocation

CheckDiskSpace ==
    /\ export.pc = "check_disk_space"
    /\ LET r == check_disk_space(invocation.available, required_bytes(export.repositories))
       IN  export' = IF r = "Ok" THEN [export EXCEPT !.pc = "confirm"] ELSE Ended(r)
    /\ UNCHANGED invocation

(* the prompt of a first export; declined, run_export returns Ok *)
ConfirmExport ==
    /\ export.pc = "confirm"
    /\ export' = IF ~invocation.is_sync /\ ~export.user_dir /\ ~invocation.confirm
                 THEN Ended("Ok")
                 ELSE [export EXCEPT !.pc = "start"]
    /\ UNCHANGED invocation

(* ProgressTracker::new(repositories.len()) and Downloader::new *)
StartExport ==
    /\ export.pc = "start"
    /\ export' = [export EXCEPT !.pc = "download_repositories",
                                !.progress = ProgressTracker_new(Len(export.repositories))]
    /\ UNCHANGED invocation

(* download_repositories as a whole: one task per descriptor is spawned,   *)
(* each ends with Success, with Failed or in a JoinError; the pairs come   *)
(* back in input order without the JoinErrors, the counters hold one       *)
(* increment per outcome, a task that reached its clone has created the    *)
(* owner's directory, a successful one its repository path                 *)
DownloadRepositories ==
    /\ export.pc = "download_repositories"
    /\ \E ends \in [1..Len(export.repositories) -> {"Success", "Failed", "JoinError"}] :
         LET n == Len(export.repositories)
             joined == SelectSeq([j \in 1..n |-> j], LAMBDA j : ends[j] # "JoinError")
             count(tag) == Cardinality({j \in 1..n : ends[j] = tag})
         IN  export' = [export EXCEPT
                 !.pc = "save",
                 !.spawned = n,
                 !.results = [x \in 1..Len(joined) |->
                                 <<Descriptor(export.repositories[joined[x]]).full_name,
                                   ends[joined[x]]>>],
                 !.progress = [@ EXCEPT !.completed_repos = count("Success"),
                                        !.failed_repos = count("Failed"),
                                        !.main_bar_finished = TRUE],
                 !.paths = {repo_path(Descriptor(export.repositories[j])) :
                                j \in {x \in 1..n : ends[x] = "Success"}},
                 !.user_dir = (@ \/ \E j \in 1..n :
                                 /\ ends[j] # "JoinError"
                                 /\ Descriptor(export.repositories[j]).owner = UserLogin)]
    /\ UNCHANGED invocation

(* variant: every returned pair is counted as successful *)
SaveMetadata_CountsAll ==
    /\ export.pc = "save"
    /\ LET tagged(t) == SelectSeq(export.results, LAMBDA e : e[2] = t)
       IN  export' =
             IF export.user_dir
             THEN [Ended("Ok") EXCEPT !.metadata =
                      [total_repos |-> Len(export.repositories),
                       successful_exports |-> Len(export.results),
                       failed_exports |-> [x \in 1..Len(tagged("Failed")) |->
                                              tagged("Failed")[x][1]]]]
             ELSE Ended("Io")
    /\ UNCHANGED invocation

(* the summary and ExportMetadata::save into the user's directory *)
SaveMetadata ==
    /\ export.pc = "save"
    /\ LET tagged(t) == SelectSeq(export.results, LAMBDA e : e[2] = t)
       IN  export' =
             IF export.user_dir
             THEN [Ended("Ok") EXCEPT !.metadata =
                      [total_repos |-> Len(export.repositories),
                       successful_exports |-> Len(tagged("Success")),
                       failed_exports |-> [x \in 1..Len(tagged("Failed")) |->
                                              tagged("Failed")[x][1]]]]
             ELSE Ended("Io")
    /\ UNCHANGED invocation

RunNext ==
    \/ Validate /\ UNCHANGED <<enginevars, syncvars>>
    \/ EnsureOutputDirectory /\ UNCHANGED <<enginevars, syncvars>>
    \/ GetAuthenticatedUser /\ UNCHANGED <<enginevars, syncvars>>
    \/ ListUserRepositories /\ UNCHANGED <<enginevars, syncvars>>
    \/ CheckDiskSpace /\ UNCHANGED <<enginevars, syncvars>>
    \/ ConfirmExport /\ UNCHANGED <<enginevars, syncvars>>
    \/ StartExport /\ UNCHANGED <<enginevars, syncvars>>
    \/ DownloadRepositories /\ UNCHANGED <<enginevars, syncvars>>
    \/ SaveMetadata /\ UNCHANGED <<enginevars, syncvars>>

RunSpec == RunInit /\ [][RunNext]_vars

(* ---------------------------------------------------------------------- *)
(* The ProgressTracker on its own.  The tracker of a batch is called from  *)
(* the transfer_progress callbacks of the clones and from the tasks that   *)
(* have their outcome; here the calls come in any order and with any       *)
(* counts, and hist holds the last call.                                   *)
(* ---------------------------------------------------------------------- *)
TrackerCall(op, repo_name, current, total) ==
    [op |-> op, repo_name |-> repo_name, current |-> current, total |-> total]

TrackerInit ==
    /\ EngineInit
    /\ fs = {}
    /\ max_concurrent = 1
    /\ local = NoRepo
    /\ remote = NoRemote
    /\ hist = TrackerCall("new", "", 0, 0)
    /\ invocation = NoInvocation
    /\ export = NoExport

(* the transfer_progress callback: stats.received_objects() and            *)
(* stats.total_objects() go to the tracker if total > 0                    *)
TransferProgressCallback ==
    \E i \in Workers, received \in 0..PackObjects, total \in 0..PackObjects :
        /\ progress' = IF total > 0
                       THEN update_repo_progress(progress, repositories[i].name,
                                                 received, total)
                       ELSE progress
        /\ hist' = TrackerCall("transfer_progress", repositories[i].name, received, total)
        /\ UNCHANGED <<local, remote>>

(* a task with a Success outcome *)
TrackerCompleted ==
    /\ progress.completed_repos + progress.failed_repos < progress.total_repos
    /\ progress' = increment_completed(progress)
    /\ hist' = TrackerCall("increment_completed", "", 0, 0)
    /\ UNCHANGED <<local, remote>>

(* a task with a Failed outcome *)
TrackerFailed ==
    /\ progress.completed_repos + progress.failed_repos < progress.total_repos
    /\ progress' = increment_failed(progress)
    /\ hist' = TrackerCall("increment_failed", "", 0, 0)
    /\ UNCHANGED <<local, remote>>

TrackerNext ==
    \/ /\ TransferProgressCallback
       /\ UNCHANGED <<repositories, max_concurrent, semaphore, tasks, task_stream,
                      results, returned, pc, stats, output, fs, counted, transport,
                      overtaken, exportvars>>
    \/ /\ TrackerCompleted
       /\ UNCHANGED <<repositories, max_concurrent, semaphore, tasks, task_stream,
                      results, returned, pc, stats, output, fs, counted, transport,
                      overtaken, exportvars>>
    \/ /\ TrackerFailed
       /\ UNCHANGED <<repositories, max_concurrent, semaphore, tasks, task_stream,
                      results, returned, pc, stats, output, fs, counted, transport,
                      overtaken, exportvars>>

ProgressSpec == TrackerInit /\ [][TrackerNext]_vars

(* ---------------------------------------------------------------------- *)
(* From the command line to run_export: Cli::parse, Config::load,          *)
(* merge_cli_config and the token check of the command handler.            *)
(* invocation holds the arguments, the GITHUB_TOKEN variable and the       *)
(* stored configuration; export holds the parsed Cli and the Config.       *)
(* ---------------------------------------------------------------------- *)
(* #[arg(default_value = "4")] of Cli::parallel *)
default_value == 4

(* the stored configuration: Config::default() or the content of the file *)
StoredConfigs ==
    [github_token : {None, Some("stored")},
     output_directory : {"./github-backup"},
     parallel_downloads : {0, 4, 8},
     include_archived : BOOLEAN, exclude_forks : BOOLEAN, shallow_clone : BOOLEAN]

(* the arguments: an option is None when it is not on the command line *)
Arguments ==
    [token : {None, Some("flag")},
     output : {None, Some("dir")},
     parallel : {None, Some(0), Some(2), Some(11)},
     include_archived : BOOLEAN, exclude_forks : BOOLEAN, shallow : BOOLEAN,
     quiet : BOOLEAN]

(* Cli::parse: --token falls back on GITHUB_TOKEN, --parallel on its default *)
parse(args, env) ==
    [token |-> IF args.token # None THEN args.token ELSE env,
     output |-> args.output,
     parallel |-> IF args.parallel # None THEN args.parallel[1] ELSE default_value,
     include_archived |-> args.include_archived,
     exclude_forks |-> args.exclude_forks,
     shallow |-> args.shallow,
     quiet |-> args.quiet]

(* variant: the three flags are assigned as they are *)
merge_cli_config_AssignsFlags(config, cli) ==
    [github_token |-> IF cli.token # None THEN cli.token ELSE config.github_token,
     output_directory |-> IF cli.output # None THEN cli.output[1]
                          ELSE config.output_directory,
     parallel_downloads |-> IF cli.parallel > 0 THEN cli.parallel
                            ELSE config.parallel_downloads,
     include_archived |-> cli.include_archived,
     exclude_forks |-> cli.exclude_forks,
     shallow_clone |-> cli.shallow]

merge_cli_config(config, cli) ==
    [github_token |-> IF cli.token # None THEN cli.token ELSE config.github_token,
     output_directory |-> IF cli.output # None THEN cli.output[1]
                          ELSE config.output_directory,
     parallel_downloads |-> IF cli.parallel > 0 THEN cli.parallel
                            ELSE config.parallel_downloads,
     include_archived |-> IF cli.include_archived THEN TRUE ELSE config.include_archived,
     exclude_forks |-> IF cli.exclude_forks THEN TRUE ELSE config.exclude_forks,
     shallow_clone |-> IF cli.shallow THEN TRUE ELSE config.shallow_clone]

NoCli == <<>>
NoConfig == <<>>

MergeInit ==
    /\ EngineInit
    /\ N = 0
    /\ max_concurrent = 0
    /\ local = NoRepo
    /\ remote = NoRemote
    /\ hist = NoHist
    /\ invocation \in [is_sync : BOOLEAN, args : Arguments,
                        env : {None, Some("env")}, stored : StoredConfigs]
    /\ export = [pc |-> "parse", result |-> "running", cli |-> NoCli, config |-> NoConfig]

(* main: Cli::parse() *)
CliParse ==
    /\ export.pc = "parse"
    /\ export' = [export EXCEPT !.pc = "merge",
                                !.cli = parse(invocation.args, invocation.env)]
    /\ UNCHANGED invocation

(* the first two statements of handle_export_command and of                *)
(* handle_sync_command: Config::load and merge_cli_config                  *)
MergeCliConfig ==
    /\ export.pc = "merge"
    /\ export' = [export EXCEPT !.pc = "token",
                                !.config = merge_cli_config(invocation.stored, export.cli)]
    /\ UNCHANGED invocation

(* the rest of the handler: the interactive setup of a first export, the   *)
(* error when there is still no token, otherwise the call of run_export    *)
HandleCommand ==
    /\ export.pc = "token"
    /\ \E dir \in {export.config.output_directory, "prompted"} :
         LET setup == ~invocation.is_sync /\ export.config.github_token = None
                         /\ ~export.cli.quiet
             config == IF setup
                       THEN [export.config EXCEPT !.github_token = Some("prompted"),
                                                  !.output_directory = dir]
                       ELSE export.config
         IN  /\ (~setup => dir = export.config.output_directory)
             /\ export' = IF config.github_token = None
                          THEN [export EXCEPT !.pc = "ended", !.result = "Config"]
                          ELSE [export EXCEPT !.pc = "run_export", !.config = config]
    /\ UNCHANGED invocation

MergeNext ==
    \/ CliParse /\ UNCHANGED <<enginevars, syncvars>>
    \/ MergeCliConfig /\ UNCHANGED <<enginevars, syncvars>>
    \/ HandleCommand /\ UNCHANGED <<enginevars, syncvars>>

MergeSpec == MergeInit /\ [][MergeNext]_vars

(* ---------------------------------------------------------------------- *)
(* Vocabulary of the properties                                            *)
(* ---------------------------------------------------------------------- *)
Panicked == {i \in Workers : pc[i] = "panicked"}
Done == {i \in Workers : pc[i] = "done"}
Holders == {i \in Workers : pc[i] \in Executing}
Waiting == {i \in Workers : pc[i] = "waiting"}

OutcomeOf(i) == output[i][3]
Succeeded == {i \in Done : OutcomeOf(i).tag = "Success"}
FailedSet == {i \in Done : OutcomeOf(i).tag = "Failed"}
TransportOk == {i \in Workers : transport[i] = "Ok"}
TransportFailed == {i \in Workers : transport[i] \in TransportErrors}

NamesOf(seq) == [k \in 1..Len(seq) |-> seq[k][1]]
Entries(name) == {k \in 1..Len(results) : results[k][1] = name}
InputNames == [k \in 1..N |-> repositories[k].full_name]
(* the input order, without the tasks that ended in a JoinError *)
JoinedNames == NamesOf(SelectSeq([k \in 1..N |-> <<repositories[k].full_name, k>>],
                                 LAMBDA e : pc[e[2]] = "done"))

(* ---------------------------------------------------------------------- *)
(* C1  The returned list and the input descriptors                         *)
(* ---------------------------------------------------------------------- *)
(* C1 as stated: when download_repositories returns, the list has as many  *)
(* entries as there were descriptors and every descriptor's full name is   *)
(* in it exactly once, task-level failures included.                       *)
C1_OneOutcomePerDescriptor ==
    returned =>
        /\ Len(results) = N
        /\ \A i \in Workers : Cardinality(Entries(repositories[i].full_name)) = 1

(* C1 amended: when download_repositories returns, the list holds exactly  *)
(* one entry for every descriptor whose task ran to its end and none for a *)
(* descriptor whose task ended in a JoinError; its length is the number of *)
(* descriptors minus the number of JoinErrors.                             *)
C1_OneOutcomePerJoinedTask ==
    returned =>
        /\ Len(results) = N - Cardinality(Panicked)
        /\ \A i \in Workers :
             Cardinality(Entries(repositories[i].full_name)) =
                 IF pc[i] = "panicked" THEN 0 ELSE 1

C1_Witness ==
    /\ returned
    /\ Panicked # {}
    /\ Succeeded # {}
    /\ FailedSet # {}

(* ---------------------------------------------------------------------- *)
(* C2  At most max_concurrent workers are past permit acquisition and not  *)
(* yet terminated, in every state of a batch with limit 1, 2 or 8.         *)
(* ---------------------------------------------------------------------- *)
C2_ConcurrencyBound ==
    max_concurrent \in {1, 2, 8} => Cardinality(Holders) <= max_concurrent

C2_Witness ==
    /\ max_concurrent = 2
    /\ Cardinality(Holders) = 2
    /\ Waiting # {}

(* ---------------------------------------------------------------------- *)
(* C3  With exactly one transport operation failing and every other one    *)
(* succeeding, the batch returns one outcome per descriptor: Failed for    *)
(* the failing repository, Success for every other; every sibling has run  *)
(* to its own end.                                                         *)
(* ---------------------------------------------------------------------- *)
C3_FailureIsolation ==
    (/\ returned
     /\ Cardinality(TransportFailed) = 1
     /\ TransportOk \cup TransportFailed = Workers)
    =>
        /\ Len(results) = N
        /\ \A i \in Workers :
             /\ pc[i] = "done"
             /\ \E k \in 1..Len(results) :
                  /\ Entries(repositories[i].full_name) = {k}
                  /\ results[k][2].tag =
                         IF i \in TransportFailed THEN "Failed" ELSE "Success"

C3_Witness ==
    /\ returned
    /\ N = 3
    /\ Cardinality(TransportFailed) = 1
    /\ Cardinality(TransportOk) = 2
    /\ \E i \in TransportFailed : \E j \in TransportOk : i < j

(* ---------------------------------------------------------------------- *)
(* C4  Permits are never leaked: every permit is either in the pool or     *)
(* held by a worker that is still executing, so with no worker executing   *)
(* the pool holds max_concurrent permits again, whether the workers ended  *)
(* in Success, in Failed or in a panic.                                    *)
(* ---------------------------------------------------------------------- *)
C4_NoPermitLeak ==
    /\ semaphore + Cardinality(Holders) = max_concurrent
    /\ Holders = {} => semaphore = max_concurrent

C4_Witness ==
    /\ max_concurrent = 1
    /\ Panicked # {}
    /\ Succeeded # {}
    /\ FailedSet # {}
    /\ Holders = {}
    /\ semaphore = 1

(* ---------------------------------------------------------------------- *)
(* C5  When download_repositories has returned, every task spawned for the *)
(* batch has terminated (none waits for a permit, holds one or runs a      *)
(* transport operation), and no step after the return changes the progress *)
(* counters or the in-flight map.                                          *)
(* ---------------------------------------------------------------------- *)
C5_NoDanglingWork ==
    /\ [](returned => (tasks = N /\ \A i \in 1..MaxRepos :
                                      i \in Workers => pc[i] \in Terminated))
    /\ [][returned => progress' = progress]_vars

C5_Witness ==
    /\ returned
    /\ N = 3
    /\ Panicked # {}
    /\ Done # {}
    /\ \E nm \in AllNames : progress.repo_bars[nm] # NoBar

(* ---------------------------------------------------------------------- *)
(* C6  With a limit of at least 1, under fair scheduling and transport     *)
(* operations that end, download_repositories eventually returns and every *)
(* spawned worker eventually ends with its own outcome, Success or Failed  *)
(* (a task that panics ends in a JoinError instead); a worker only ever    *)
(* waits for a permit, so the batch cannot deadlock.                       *)
(* ---------------------------------------------------------------------- *)
C6_Termination ==
    <>(\/ max_concurrent = 0
       \/ /\ returned
          /\ \A i \in Workers :
               \/ pc[i] = "panicked"
               \/ pc[i] = "done" /\ OutcomeOf(i).tag \in {"Success", "Failed"})

C6_Witness ==
    /\ returned
    /\ max_concurrent = 1
    /\ N = 3
    /\ Done = Workers

(* ---------------------------------------------------------------------- *)
(* C7  A worker never makes more than one counter increment, and a worker  *)
(* that ended with Success has made exactly one increment of completed and *)
(* none of failed, one that ended with Failed exactly one of failed and    *)
(* none of completed.                                                      *)
(* ---------------------------------------------------------------------- *)
C7_CountedOnce ==
    \A i \in Workers :
        /\ counted[i][1] + counted[i][2] <= 1
        /\ i \in Succeeded => counted[i] = <<1, 0>>
        /\ i \in FailedSet => counted[i] = <<0, 1>>

C7_Witness ==
    /\ \E i \in Succeeded : counted[i] = <<1, 0>>
    /\ \E i \in FailedSet : OutcomeOf(i).reason[1] = "Update failed"
    /\ \E i \in FailedSet : OutcomeOf(i).reason[1] = "Clone failed"

(* ---------------------------------------------------------------------- *)
(* C8  completed + failed never exceeds total, total is the number of      *)
(* descriptors of the batch throughout, and no increment is lost: each     *)
(* counter equals the number of workers whose transport ended that way.    *)
(* ---------------------------------------------------------------------- *)
C8_CountersBounded ==
    /\ progress.completed_repos + progress.failed_repos <= progress.total_repos
    /\ progress.total_repos = N
    /\ progress.completed_repos = Cardinality(TransportOk)
    /\ progress.failed_repos = Cardinality(TransportFailed)

C8_Witness ==
    /\ max_concurrent = 8
    /\ overtaken
    /\ progress.total_repos = 3
    /\ progress.completed_repos >= 1
    /\ progress.failed_repos >= 1
    /\ progress.completed_repos + progress.failed_repos = 3

(* ---------------------------------------------------------------------- *)
(* C9  Once a repository's worker has ended with Success or Failed (and no *)
(* other worker of a repository with the same name is still executing),    *)
(* the in-flight map has no entry for its name; after the batch has        *)
(* returned the map is empty.                                              *)
(* ---------------------------------------------------------------------- *)
C9_InFlightOnly ==
    /\ \A i \in Done :
         (\A j \in Workers \ {i} :
              repositories[j].name = repositories[i].name => pc[j] \notin Executing)
         => progress.repo_bars[repositories[i].name] = NoBar
    /\ returned => \A nm \in AllNames : progress.repo_bars[nm] = NoBar

(* ---------------------------------------------------------------------- *)
(* C10  The order of the returned pairs                                    *)
(* ---------------------------------------------------------------------- *)
(* C10 as stated: the pairs are in completion order, so in a batch where   *)
(* some worker ended before a worker spawned before it (and no task ended  *)
(* in a JoinError) the returned order differs from the input order.        *)
C10_CompletionOrder ==
    (returned /\ overtaken /\ Panicked = {}) => NamesOf(results) # InputNames

(* C10 amended: the pairs are in the order of the input descriptors (the   *)
(* order in which the tasks were spawned), whatever the order in which the *)
(* workers ended; tasks that ended in a JoinError are left out.            *)
C10_InputOrder ==
    returned => NamesOf(results) = JoinedNames

C10_Witness ==
    /\ returned
    /\ overtaken
    /\ Panicked = {}
    /\ Len(results) = 3

(* ---------------------------------------------------------------------- *)
(* Vocabulary of the properties about consecutive runs                     *)
(* ---------------------------------------------------------------------- *)
SecondRun == hist.prev # NoHist
(* the update of this run has ended with Ok *)
Updated ==
    /\ hist.dec = "updating"
    /\ pc[1] = "done"
    /\ transport[1] = "Ok"
HeadBefore == hist.before.refs[hist.before.HEAD]

C12_FailedCloneIsRetried ==
    (/\ SecondRun
     /\ hist.prev.dec = "cloning"
     /\ hist.prev.tag = "Failed"
     /\ hist.dec # "none")
    => hist.dec = "cloning"

(* ---------------------------------------------------------------------- *)
(* C13  When twice the summed estimated size of the repositories to export *)
(* exceeds the bytes available, run_export does not get past the disk      *)
(* space check: it ends with InsufficientSpace, and then no task has been  *)
(* spawned, no ProgressTracker exists, no path under the output root has   *)
(* been created (the user's directory included), and there is no outcome   *)
(* and no metadata.                                                        *)
(* ---------------------------------------------------------------------- *)
C13_PrecheckAborts ==
    /\ (/\ export.repositories # <<>>
        /\ total_size(export.repositories) * 2 > invocation.available
        /\ export.pc # "check_disk_space")
       => (export.pc = "ended" /\ export.result = "InsufficientSpace")
    /\ export.result = "InsufficientSpace" =>
          /\ export.spawned = 0
          /\ export.progress = NoTracker
          /\ export.paths = {}
          /\ export.user_dir = invocation.user_dir
          /\ export.results = <<>>
          /\ export.metadata = NoMetadata

C13_Witness ==
    /\ export.result = "InsufficientSpace"
    /\ total_size(export.repositories) < invocation.available
    /\ invocation.available < total_size(export.repositories) * 2
    /\ Len(export.repositories) >= 2
    /\ ~invocation.root
    /\ export.root

(* ---------------------------------------------------------------------- *)
(* C14  Fast-forward of an existing repository                             *)
(* ---------------------------------------------------------------------- *)
(* C14 as stated: with HEAD on a local main at a commit that is an         *)
(* ancestor of the fetched remote head, the update ends with Success,      *)
(* main points at the fetched commit, HEAD is on main and the working tree *)
(* matches the fetched commit, whatever other local branches there are.    *)
C14_MainAdvanced ==
    (/\ Updated
     /\ hist.before.HEAD = "main"
     /\ Ancestor(hist.before.refs["main"], remote.head))
    =>
        /\ output[1][3] = Success
        /\ local.refs["main"] = remote.head
        /\ local.HEAD = "main"
        /\ local.worktree = remote.head

(* C14 amended: in that situation the update ends with Success and the     *)
(* working tree matches the fetched commit; if the repository has no local *)
(* branch master, main points at the fetched commit and HEAD is on main;   *)
(* if it has one, master is set to the fetched commit and HEAD is moved to *)
(* master, while main stays where it was.  No other branch is changed.     *)
C14_FastForward ==
    (/\ Updated
     /\ hist.before.HEAD = "main"
     /\ Ancestor(hist.before.refs["main"], remote.head))
    =>
        /\ output[1][3] = Success
        /\ local.worktree = remote.head
        /\ LET moved == IF hist.before.refs["master"] = Absent THEN "main" ELSE "master"
           IN  /\ local.HEAD = moved
               /\ local.refs = [hist.before.refs EXCEPT ![moved] = remote.head]

C14_Witness ==
    /\ Updated
    /\ hist.before.HEAD = "main"
    /\ hist.before.refs = [master |-> Absent, main |-> "A", dev |-> "C"]
    /\ remote.head = "B"
    /\ local.refs = [master |-> Absent, main |-> "B", dev |-> "C"]

(* ---------------------------------------------------------------------- *)
(* C15  When the fetched commit is not a fast-forward of HEAD (HEAD is up  *)
(* to date with it or has diverged from it), an update that ends Ok leaves *)
(* every local branch pointer, HEAD and the working tree as they were, and *)
(* the outcome is Success with completed incremented.                      *)
(* ---------------------------------------------------------------------- *)
C15_NoMergeFrame ==
    (Updated /\ ~Ancestor(HeadBefore, remote.head)) =>
        /\ local.refs = hist.before.refs
        /\ local.HEAD = hist.before.HEAD
        /\ local.worktree = hist.before.worktree
        /\ output[1][3] = Success
        /\ progress.completed_repos = 1
        /\ progress.failed_repos = 0

C15_Witness ==
    /\ Updated
    /\ HeadBefore = "C"
    /\ remote.head = "B"
    /\ hist.before.refs["master"] = "A"
    /\ local.origin = "B"
    /\ local.refs = hist.before.refs

(* ---------------------------------------------------------------------- *)
(* C16  When a task ended in a JoinError, the collect loop goes on past     *)
(* its handle and download_repositories returns as for any other batch;    *)
(* the returned list has no pair for that task's repository, and           *)
(* it has the pair (full name, outcome) of every task that ran to its end, *)
(* those collected before the JoinError and those collected after it.      *)
(* ---------------------------------------------------------------------- *)
C16_JoinErrorOmitted ==
    /\ (~returned /\ tasks = N /\ task_stream < N /\ pc[task_stream + 1] = "panicked")
           => ENABLED Collect
    /\ returned =>
         \A i \in Workers :
             /\ pc[i] = "panicked" =>
                    \A k \in 1..Len(results) : results[k][1] # repositories[i].full_name
             /\ pc[i] = "done" =>
                    \E k \in 1..Len(results) :
                        results[k] = <<repositories[i].full_name, OutcomeOf(i)>>

C16_Witness ==
    /\ returned
    /\ \E i \in Panicked :
         /\ \E h \in Done : h < i
         /\ \E j \in Done : j > i

C18_OneWriterPerEntry ==
    \A i \in Workers : \A j \in Workers \ {i} :
        (/\ pc[i] = "cloning" /\ stats[i][1] > 0
         /\ pc[j] = "cloning" /\ stats[j][1] > 0)
        => repositories[i].name # repositories[j].name

(* ---------------------------------------------------------------------- *)
(* C19  Once every repository of a non-empty batch has ended with Success  *)
(* or Failed, completed equals total and an increment has marked the main  *)
(* bar finished, whether or not the engine has returned.                   *)
(* ---------------------------------------------------------------------- *)
C19_CompletionObservable ==
    (N >= 1 /\ Done = Workers) =>
        /\ progress.completed_repos = progress.total_repos
        /\ progress.main_bar_finished

(* ---------------------------------------------------------------------- *)
(* C20  In a sync with --since DATE, no repository whose last modification *)
(* is on or before DATE is in the batch handed to the workers, and the     *)
(* batch differs from the one of a sync without --since whenever the       *)
(* filtered listing has such a repository.                                 *)
(* ---------------------------------------------------------------------- *)
C20_SinceFilters ==
    (/\ invocation.is_sync
     /\ invocation.since # None
     /\ export.spawned > 0)
    =>
        /\ \A j \in 1..Len(export.repositories) :
             updated_at(export.repositories[j]) > invocation.since[1]
        /\ (\E j \in 1..Len(retain(invocation.listing, invocation.config)) :
               updated_at(retain(invocation.listing, invocation.config)[j])
                   <= invocation.since[1])
           => export.repositories # retain(invocation.listing, invocation.config)

(* ---------------------------------------------------------------------- *)
(* C21  The steps of a repository's task come in one order: the permit is  *)
(* acquired, then Deciding looks at the target path, then the clone runs   *)
(* (path absent) or the update runs (path present), never both; the task   *)
(* that runs to its end makes exactly one counter increment in the step    *)
(* that ends it, while it still holds the permit, and the permit goes back *)
(* to the pool with the end of that step; the engine collects the outcome  *)
(* only after that.                                                        *)
(* ---------------------------------------------------------------------- *)
StepOrder ==
    {<<"unspawned", "waiting">>, <<"waiting", "deciding">>,
     <<"deciding", "cloning">>, <<"deciding", "updating">>, <<"deciding", "panicked">>,
     <<"cloning", "checkout">>, <<"cloning", "done">>, <<"checkout", "done">>,
     <<"updating", "done">>}

C21_StepOrder ==
    /\ [](\A i \in 1..MaxRepos : i \in Workers =>
            /\ pc[i] = "done" => (counted[i][1] + counted[i][2] = 1 /\ transport[i] # "none")
            /\ pc[i] \in {"unspawned", "waiting", "deciding"} =>
                   (counted[i] = <<0, 0>> /\ transport[i] = "none")
            /\ i <= task_stream => pc[i] \in Terminated)
    /\ [][\A i \in 1..MaxRepos : i \in Workers =>
            /\ pc'[i] # pc[i] => <<pc[i], pc'[i]>> \in StepOrder
            /\ (pc[i] = "waiting" /\ pc'[i] = "deciding") => semaphore' = semaphore - 1
            /\ (pc[i] = "deciding" /\ pc'[i] = "cloning") =>
                   repo_path(repositories[i]) \notin fs
            /\ (pc[i] = "deciding" /\ pc'[i] = "updating") =>
                   repo_path(repositories[i]) \in fs
            /\ counted'[i] # counted[i] =>
                   /\ pc[i] \in {"cloning", "checkout", "updating"}
                   /\ pc'[i] = "done"
                   /\ semaphore' = semaphore + 1]_vars

C21_Witness ==
    /\ returned
    /\ task_stream = 3
    /\ max_concurrent = 1
    /\ \E i \in Succeeded : repo_path(repositories[i]) \in fs
    /\ \E i \in FailedSet : OutcomeOf(i).reason[1] = "Update failed"
    /\ \E i \in FailedSet : OutcomeOf(i).reason[1] = "Clone failed"

(* ---------------------------------------------------------------------- *)
(* C26  When download_repositories has returned and no task ended in a     *)
(* JoinError, completed is the number of Success pairs of the returned     *)
(* list, failed the number of Failed pairs, completed + failed is total,   *)
(* and every pair is Success or Failed, none Skipped.                      *)
(* ---------------------------------------------------------------------- *)
C26_CountersMatchResults ==
    (returned /\ Panicked = {}) =>
        /\ progress.completed_repos =
               Cardinality({k \in 1..Len(results) : results[k][2].tag = "Success"})
        /\ progress.failed_repos =
               Cardinality({k \in 1..Len(results) : results[k][2].tag = "Failed"})
        /\ progress.completed_repos + progress.failed_repos = progress.total_repos
        /\ \A k \in 1..Len(results) : results[k][2].tag \in {"Success", "Failed"}

C26_Witness ==
    /\ returned
    /\ Panicked = {}
    /\ Len(results) = 3
    /\ progress.completed_repos = 2
    /\ progress.failed_repos = 1

(* ---------------------------------------------------------------------- *)
(* C27  With max_concurrent = 0 and at least one descriptor the engine     *)
(* spawns its tasks (it does not reject the limit) and never returns:      *)
(* every spawned task stays at the permit acquisition, no handle resolves, *)
(* the list stays empty and no counter is incremented.                     *)
(* ---------------------------------------------------------------------- *)
C27_ZeroPermitsBlock ==
    (max_concurrent = 0 /\ N >= 1) =>
        /\ ~returned
        /\ \A i \in Workers : pc[i] \in {"unspawned", "waiting"}
        /\ tasks < N => ENABLED Spawn
        /\ task_stream = 0
        /\ results = <<>>
        /\ \A i \in Workers : output[i] = Pending
        /\ progress.completed_repos = 0
        /\ progress.failed_repos = 0

C27_Witness ==
    /\ max_concurrent = 0
    /\ N = 3
    /\ tasks = 3
    /\ \A i \in Workers : pc[i] = "waiting"

(* ---------------------------------------------------------------------- *)
(* C22  On an update that ends Ok with the fetched commit a fast-forward   *)
(* of HEAD, at most one local branch is changed: master if it exists,      *)
(* otherwise main if it exists; that branch is set to the fetched commit,  *)
(* HEAD is on it and the working tree matches the fetched commit.  With    *)
(* neither of the two, no branch, HEAD or working tree is changed.  The    *)
(* outcome is Success in each case.                                        *)
(* ---------------------------------------------------------------------- *)
C22_FastForwardPolicy ==
    (Updated /\ Ancestor(HeadBefore, remote.head)) =>
        /\ output[1][3] = Success
        /\ Cardinality({b \in Branches : local.refs[b] # hist.before.refs[b]}) <= 1
        /\ LET target == IF hist.before.refs["master"] # Absent THEN "master"
                         ELSE IF hist.before.refs["main"] # Absent THEN "main"
                         ELSE "none"
           IN  IF target = "none"
               THEN /\ local.refs = hist.before.refs
                    /\ local.HEAD = hist.before.HEAD
                    /\ local.worktree = hist.before.worktree
               ELSE /\ local.refs = [hist.before.refs EXCEPT ![target] = remote.head]
                    /\ local.HEAD = target
                    /\ local.worktree = remote.head

C22_Witness ==
    /\ Updated
    /\ hist.before.HEAD = "dev"
    /\ hist.before.refs = [master |-> Absent, main |-> Absent, dev |-> "A"]
    /\ remote.head = "B"
    /\ local.refs = hist.before.refs
    /\ local.origin = "B"
    /\ output[1][3] = Success

(* ---------------------------------------------------------------------- *)
(* C25  When the target path was there at Deciding and has been removed or *)
(* damaged from outside before the update opens it, the task does not go   *)
(* on to clone: it ends with Failed("Update failed ..."), with one         *)
(* increment of failed and none of completed, and its permit is back in    *)
(* the pool.                                                               *)
(* ---------------------------------------------------------------------- *)
C25_NoFallbackToClone ==
    hist.mutated =>
        /\ hist.dec = "updating"
        /\ pc[1] \in {"updating", "done"}
        /\ pc[1] = "done" =>
              /\ output[1][3].tag = "Failed"
              /\ output[1][3].reason[1] = "Update failed"
              /\ counted[1] = <<0, 1>>
              /\ progress.failed_repos = 1
              /\ progress.completed_repos = 0
              /\ semaphore = max_concurrent

C25_Witness ==
    /\ hist.mutated
    /\ returned
    /\ repo_path(repositories[1]) \notin fs
    /\ transport[1] = "Git"
    /\ results = <<(<<repositories[1].full_name, Failed("Update failed", "Git")>>)>>

(* ---------------------------------------------------------------------- *)
(* C29  When the blocking task of a clone or of an update cannot be joined *)
(* the repository is not dropped: the error is a Download error, the       *)
(* outcome is Failed with the reason of the step that was running, failed  *)
(* is incremented once, and the pair is in the returned list.              *)
(* ---------------------------------------------------------------------- *)
C29_TaskFailureReported ==
    transport[1] = "Download" =>
        /\ pc[1] = "done"
        /\ output[1] =
              JoinOk(repositories[1].full_name,
                     Failed(IF hist.dec = "updating" THEN "Update failed" ELSE "Clone failed",
                            "Download"))
        /\ counted[1] = <<0, 1>>
        /\ progress.failed_repos = 1
        /\ progress.completed_repos = 0
        /\ returned => results = <<(<<output[1][2], output[1][3]>>)>>

C29_Witness ==
    /\ transport[1] = "Download"
    /\ returned
    /\ hist.dec = "cloning"
    /\ Len(results) = 1
    /\ results[1][2].tag = "Failed"

(* ---------------------------------------------------------------------- *)
(* C24  The metadata of a run is written at most once, and only after      *)
(* download_repositories has returned.  It is not written when the         *)
(* filtered listing is empty, when the disk space check fails or when the  *)
(* user declines.  total_repos is the number of descriptors handed to the  *)
(* engine, successful_exports the number of Success outcomes and           *)
(* failed_exports the names of the Failed outcomes, in order; so           *)
(* successful_exports + |failed_exports| <= total_repos.                   *)
(* ---------------------------------------------------------------------- *)
C24_MetadataAfterBatch ==
    /\ [](/\ export.metadata # NoMetadata =>
              /\ export.pc = "ended"
              /\ export.spawned = Len(export.repositories)
              /\ export.spawned > 0
              /\ export.metadata.total_repos = export.spawned
              /\ export.metadata.successful_exports =
                    Cardinality({x \in 1..Len(export.results) :
                                    export.results[x][2] = "Success"})
              /\ \E idx \in [1..Len(export.metadata.failed_exports) -> 1..MaxRepos] :
                    /\ \A a, b \in DOMAIN idx : a < b => idx[a] < idx[b]
                    /\ {idx[a] : a \in DOMAIN idx} =
                          {x \in 1..Len(export.results) : export.results[x][2] = "Failed"}
                    /\ \A a \in DOMAIN idx :
                          export.metadata.failed_exports[a] = export.results[idx[a]][1]
              /\ export.metadata.successful_exports + Len(export.metadata.failed_exports)
                    <= export.metadata.total_repos
          /\ (\/ retain(invocation.listing, invocation.config) = <<>>
              \/ export.result = "InsufficientSpace"
              \/ (~invocation.is_sync /\ ~invocation.user_dir /\ ~invocation.confirm))
             => export.metadata = NoMetadata)
    /\ [][export.metadata # NoMetadata => export'.metadata = export.metadata]_vars

C24_Witness ==
    /\ export.metadata # NoMetadata
    /\ export.metadata.total_repos = 3
    /\ export.metadata.successful_exports = 1
    /\ export.metadata.failed_exports = <<Descriptor(1).full_name>>
    /\ Len(export.results) = 2

(* ---------------------------------------------------------------------- *)
(* C28  With parallel_downloads 0 or above 10, run_export ends with a      *)
(* Config error at its first step: the output directory has not been       *)
(* created, no request has been made and nothing has been spawned.  A      *)
(* batch is therefore only ever started with 1 to 10 permits.              *)
(* ---------------------------------------------------------------------- *)
C28_LimitValidatedFirst ==
    /\ invocation.config.parallel_downloads \notin 1..10 =>
          /\ export.pc \in {"validate", "ended"}
          /\ export.pc = "ended" => export.result = "Config"
          /\ export.root = invocation.root
          /\ export.user_dir = invocation.user_dir
          /\ export.repositories = <<>>
          /\ export.progress = NoTracker
          /\ export.spawned = 0
          /\ export.paths = {}
    /\ export.pc \in {"download_repositories", "save"} \/ export.spawned > 0
          => invocation.config.parallel_downloads \in 1..10

C28_Witness ==
    /\ export.pc = "ended"
    /\ export.result = "Config"
    /\ invocation.config.parallel_downloads = 0
    /\ ~invocation.root
    /\ ~export.root
    /\ invocation.listing # <<>>

(* ---------------------------------------------------------------------- *)
(* C23  A call update_repo_progress(name, done, total) leaves a bar under  *)
(* name exactly when done < total: a missing bar is created with length    *)
(* total, a bar already there keeps its length, and in both cases its      *)
(* position is done; with done >= total there is no bar under name.  The   *)
(* bars under the other names and the three counters are as before.  The   *)
(* callback of a clone makes the call only with total > 0, and nothing     *)
(* else changes the bars.                                                  *)
(* ---------------------------------------------------------------------- *)
C23_ProgressFrame ==
    [][/\ hist'.op = "transfer_progress" =>
            IF hist'.total > 0
            THEN /\ (progress'.repo_bars[hist'.repo_name] # NoBar)
                        <=> (hist'.current < hist'.total)
                 /\ hist'.current < hist'.total =>
                        progress'.repo_bars[hist'.repo_name] =
                           <<hist'.current,
                             IF progress.repo_bars[hist'.repo_name] = NoBar
                             THEN hist'.total
                             ELSE progress.repo_bars[hist'.repo_name][2]>>
                 /\ \A nm \in AllNames \ {hist'.repo_name} :
                        progress'.repo_bars[nm] = progress.repo_bars[nm]
                 /\ progress'.total_repos = progress.total_repos
                 /\ progress'.completed_repos = progress.completed_repos
                 /\ progress'.failed_repos = progress.failed_repos
                 /\ progress'.main_bar_finished = progress.main_bar_finished
            ELSE progress' = progress
       /\ progress'.repo_bars # progress.repo_bars =>
            (hist'.op = "transfer_progress" /\ hist'.total > 0)
      ]_vars

C23_Witness ==
    /\ hist.op = "transfer_progress"
    /\ hist.repo_name = "app"
    /\ hist.current = 1
    /\ hist.total = 1
    /\ progress.repo_bars["app"] = NoBar
    /\ progress.repo_bars["lib"] = <<1, 2>>
    /\ progress.completed_repos = 1
    /\ progress.failed_repos = 1

(* ---------------------------------------------------------------------- *)
(* C30  After merge_cli_config the limit is the value of --parallel when   *)
(* that is above 0, 4 when --parallel is not given, and the stored         *)
(* parallel_downloads only with --parallel 0; run_export gets that limit.  *)
(* The output directory is the one of --output when given and the stored   *)
(* one otherwise; each of include_archived, exclude_forks and shallow is   *)
(* true when its flag is given or the stored value is true.  The token is  *)
(* the one of --token when given and the stored one otherwise.             *)
(* ---------------------------------------------------------------------- *)
MergedLimit ==
    IF invocation.args.parallel = None THEN 4
    ELSE IF invocation.args.parallel[1] > 0 THEN invocation.args.parallel[1]
    ELSE invocation.stored.parallel_downloads

MergedOptions ==
    /\ export.pc \in {"token", "run_export"} =>
          /\ export.config.parallel_downloads = MergedLimit
          /\ export.config.include_archived =
                (invocation.args.include_archived \/ invocation.stored.include_archived)
          /\ export.config.exclude_forks =
                (invocation.args.exclude_forks \/ invocation.stored.exclude_forks)
          /\ export.config.shallow_clone =
                (invocation.args.shallow \/ invocation.stored.shallow_clone)
    /\ export.pc = "token" =>
          export.config.output_directory =
              IF invocation.args.output # None THEN invocation.args.output[1]
              ELSE invocation.stored.output_directory

C30_OnlyFromCommandLine ==
    /\ MergedOptions
    /\ export.pc = "token" =>
          export.config.github_token =
              IF invocation.args.token # None THEN invocation.args.token
              ELSE invocation.stored.github_token

(* C30 as amended: the token is the one of --token when given, otherwise   *)
(* the one of the GITHUB_TOKEN variable when set, otherwise the stored     *)
(* one; the other options as stated.                                       *)
C30_MergedConfig ==
    /\ MergedOptions
    /\ export.pc = "token" =>
          export.config.github_token =
              IF invocation.args.token # None THEN invocation.args.token
              ELSE IF invocation.env # None THEN invocation.env
              ELSE invocation.stored.github_token

C30_Witness ==
    /\ export.pc = "run_export"
    /\ invocation.args.parallel = None
    /\ invocation.stored.parallel_downloads = 8
    /\ export.config.parallel_downloads = 4
    /\ invocation.stored.include_archived
    /\ ~invocation.args.include_archived
    /\ export.config.include_archived
    /\ invocation.args.shallow
    /\ ~invocation.stored.shallow_clone
    /\ invocation.args.token = None
    /\ invocation.stored.github_token = Some("stored")
    /\ export.config.github_token = Some("env")

====
